---- MODULE Spec2Model ----
(***************************************************************************)
(* The tiling / reconstruction core of raidionicsseg/Inference/            *)
(* predictions.py: run_predictions and its three strategies (whole        *)
(* volume, slab-wise, patch-wise).                                         *)
(*                                                                         *)
(* Arrays are kept by shape plus the list of writes made into them; the    *)
(* value of an element is computed from that list the way numpy computes   *)
(* it (np.zeros, then each assignment in order).  Indices are 0-based as   *)
(* in the source; tuples <<a, b, c>> are (axis0, axis1, axis2).            *)
(* Intensities are counted in tenths, so the source's 0.1 is 1.            *)
(***************************************************************************)
EXTENDS Integers, Sequences, FiniteSets, TLC

\* ------------------------------------------------------------------ bounds
\* Largest extent of the input volume along one axis.
MaxDim == 3
\* Largest training_slab_size.
MaxSlab == 3
\* Largest training_patch_size along one axis.
MaxPatch == 3
\* Largest value of an element of the model's output; the smallest is -1
\* (an unnormalised score below zero).
MaxProb == 2

ModelSeeds == {0, 1}
ClassCounts == {1, 2}
Planes == {"axial", "sagittal", "coronal"}

\* The edge-case scenario of the specification's section 8.
EdgeShapes == {<<64, 64, 40>>, <<64, 40, 64>>, <<40, 64, 64>>, <<40, 40, 40>>}
EdgePatchSize == <<32, 32, 32>>
EdgePatchOffset == <<8, 8, 8>>

\* ----------------------------------------------------------------- helpers
Max2(a, b) == IF a >= b THEN a ELSE b
Min2(a, b) == IF a <= b THEN a ELSE b
Abs(a) == IF a < 0 THEN -a ELSE a

\* math.ceil(a / b) and int(np.ceil(a / b)) for a >= 0, b > 0.
CeilDiv(a, b) == (a + b - 1) \div b

\* len(range(lo, hi)) bounds: Python's a[lo:hi] on an axis of extent n,
\* for lo, hi >= 0, keeps the indices Clip(lo) .. Clip(hi) - 1.
Clip(i, n) == Min2(Max2(i, 0), n)
SliceLen(lo, hi, n) == Max2(Clip(hi, n) - Clip(lo, n), 0)

Add3(a, b) == <<a[1] + b[1], a[2] + b[2], a[3] + b[3]>>
Sub3(a, b) == <<a[1] - b[1], a[2] - b[2], a[3] - b[3]>>
Zero3 == <<0, 0, 0>>

\* lo <= v < hi on every axis.
InBox(v, lo, hi) == \A a \in 1..3 : lo[a] <= v[a] /\ v[a] < hi[a]

Voxels(shape) == (0..(shape[1] - 1)) \X (0..(shape[2] - 1)) \X (0..(shape[3] - 1))

\* tuple t with component a replaced by x.
With(t, a, x) == [t EXCEPT ![a] = x]

RECURSIVE SumOver(_, _)
SumOver(S, f) ==
    IF S = {} THEN 0
    ELSE LET x == CHOOSE y \in S : TRUE IN f[x] + SumOver(S \ {x}, f)

\* ------------------------------------------------------------- parameters
\* parameters.new_axial_size: None, or a list of integers.
NoneSize == [none |-> TRUE, dims |-> <<>>]
ListSize(d) == [none |-> FALSE, dims |-> d]

\* Python truth value of parameters.new_axial_size: None and [] are false.
Truthy(nas) == (~nas.none) /\ Len(nas.dims) > 0

\* The axis the slabs are stacked along, as upper_boundary is resolved.
PlaneAxis(slicing_plane) ==
    IF slicing_plane = "sagittal" THEN 1
    ELSE IF slicing_plane = "coronal" THEN 2
    ELSE 3

\* The two axes of a slab other than the slicing axis, in the order the
\* source's transposes leave them: axial (0,1), sagittal (1,2), coronal (0,2).
InPlaneAxes(axis) ==
    IF axis = 1 THEN <<2, 3>> ELSE IF axis = 2 THEN <<1, 3>> ELSE <<1, 2>>

InPlane(t, axis) == <<t[InPlaneAxes(axis)[1]], t[InPlaneAxes(axis)[2]]>>

Swap2(d) == <<d[2], d[1]>>

DefaultParams ==
    [new_axial_size |-> NoneSize,
     slicing_plane |-> "axial",
     training_slab_size |-> 1,
     training_patch_size |-> <<1, 1, 1>>,
     training_patch_offset |-> <<0, 0, 0>>,
     training_nb_classes |-> 1,
     predictions_non_overlapping |-> FALSE,
     swap_training_input |-> FALSE,
     fix_orientation |-> FALSE,
     training_deep_supervision |-> FALSE]

\* ------------------------------------------------------------ the volume
\* The input volume: its shape and the intensities (in tenths) of the voxels
\* that are not zero.
EmptyVox == [v \in {} |-> 0]
OneVox(v, i) == [w \in {v} |-> i]
AllVox(shape, i) == [w \in Voxels(shape) |-> i]
LastVoxel(shape) == <<shape[1] - 1, shape[2] - 1, shape[3] - 1>>

\* Intensity of element p of a working copy padded with `lead` leading
\* zero-filled elements per axis.
Intensity(vol, lead, p) ==
    LET v == Sub3(p, lead) IN IF v \in DOMAIN vol.vox THEN vol.vox[v] ELSE 0

\* np.sum(slab_CT > 0.1) == 0 on the elements lo <= p < hi of the working copy.
IsEmptyRegion(vol, lead, lo, hi) ==
    \A v \in DOMAIN vol.vox : InBox(Add3(v, lead), lo, hi) => ~(vol.vox[v] > 1)

\* ------------------------------------------------------------- the model
\* The model is a deterministic function of the tile it is given.  A tile's
\* content is summarised by Signature; Predict is the output element at
\* index `out` and class c.
Signature(vol, lead, lo, hi) ==
    LET inside == {v \in DOMAIN vol.vox : InBox(Add3(v, lead), lo, hi)}
        weight == [v \in inside |->
                     LET l == Sub3(Add3(v, lead), lo)
                     IN vol.vox[v] * (1 + l[1] + 2 * l[2] + 3 * l[3])]
    IN SumOver(inside, weight)

Predict(seed, sig, out, c) ==
    ((seed + sig + out[1] + 2 * out[2] + 3 * out[3] + c) % (MaxProb + 2)) - 1


\* ----------------------------------------------------------------- arrays
\* A 4-D result array: spatial shape, number of classes, the offset `lead`
\* of its element (0,0,0) in the allocation it is a slice of, and the
\* assignments made into the allocation, oldest first.
NoArray == [shape |-> Zero3, nb |-> 0, lead |-> Zero3, writes |-> <<>>]

\* np.zeros(shape + (nb,))
Zeros(shape, nb) == [shape |-> shape, nb |-> nb, lead |-> Zero3, writes |-> <<>>]

\* Index i of a source axis of extent n broadcast over a target axis.
Bc(n, i) == IF n = 1 THEN 0 ELSE i

\* numpy lets a source axis of extent n fill a target axis of extent m.
BroadcastOK(n, m) == n = m \/ n = 1

\* The value one assignment w puts at element v (allocation coordinates) and
\* class c: which element of the model's output the source's indexing takes.
ValueOf(seed, w, v, c) ==
    LET l == Sub3(v, w.lo)
        pq == InPlane(l, w.axis)
    IN CASE w.kind = "window" ->
              \* slab_CT_pred[0][:, :, half_slab_size, c]
              Predict(seed, w.sig, <<Bc(w.n[1], pq[1]), Bc(w.n[2], pq[2]), w.k>>, c)
         [] w.kind = "slice" ->
              \* slab_CT_pred[:, :, c] of a (1, n0, n1, C) output
              Predict(seed, w.sig, <<Bc(w.n[1], l[1]), c, 0>>, Bc(w.nb, l[2]))
         [] w.kind = "chunk" ->
              \* slab_CT_pred[0][:, :, :slab_size, c], transposed back
              Predict(seed, w.sig, <<pq[1], pq[2], l[w.axis] + w.k>>, c)
         [] OTHER ->
              \* patch_pred[0] and predictions[0][0]
              Predict(seed, w.sig, l, c)

RECURSIVE Accumulate(_, _, _, _, _)
\* The element (v, c) of the allocation after the first n assignments.
Accumulate(seed, writes, n, v, c) ==
    IF n = 0 THEN 0
    ELSE LET w == writes[n]
             before == Accumulate(seed, writes, n - 1, v, c)
         IN IF ~InBox(v, w.lo, w.hi) THEN before
            ELSE IF w.op = "max" THEN Max2(ValueOf(seed, w, v, c), before)
            ELSE ValueOf(seed, w, v, c)

\* arr[v[1], v[2], v[3], c]
ValueAt(seed, arr, v, c) ==
    Accumulate(seed, arr.writes, Len(arr.writes), Add3(v, arr.lead), c)

\* arr[lo[1]:hi[1], lo[2]:hi[2], lo[3]:hi[3], :]
SliceArray(arr, lo, hi) ==
    [arr EXCEPT
       !.shape = <<SliceLen(lo[1], hi[1], arr.shape[1]),
                   SliceLen(lo[2], hi[2], arr.shape[2]),
                   SliceLen(lo[3], hi[3], arr.shape[3])>>,
       !.lead = Add3(arr.lead, <<Clip(lo[1], arr.shape[1]),
                                 Clip(lo[2], arr.shape[2]),
                                 Clip(lo[3], arr.shape[3])>>)]

\* One assignment record.
Write(op, kind, lo, hi, sig, axis, k, n, nb, src, inv) ==
    [op |-> op, kind |-> kind, lo |-> lo, hi |-> hi, sig |-> sig, axis |-> axis,
     k |-> k, n |-> n, nb |-> nb, src |-> src, inv |-> inv]

Assign(arr, w) == [arr EXCEPT !.writes = Append(@, w)]


\* ---------------------------------------------------------------- padding
\* The working copy of the volume: its (padded) shape and the number of
\* zero-filled elements put in front of each axis.
NoData == [shape |-> Zero3, lead |-> Zero3]

\* padding_for_inference: pad the tail of the slicing axis up to a multiple
\* of slab_size; returns the padded copy and the pad amount.
TailPadValue(extent, slab_size) == (slab_size - (extent % slab_size)) % slab_size

padding_for_inference(shape, slab_size, axis) ==
    [data |-> [shape |-> With(shape, axis, shape[axis] + TailPadValue(shape[axis], slab_size)),
               lead |-> Zero3],
     pad_value |-> TailPadValue(shape[axis], slab_size)]

\* padding_for_inference_both_ends: slab_size/2 on both ends of the slicing axis.
padding_for_inference_both_ends(shape, slab_size, axis) ==
    [shape |-> With(shape, axis, shape[axis] + 2 * (slab_size \div 2)),
     lead |-> With(Zero3, axis, slab_size \div 2)]

\* padding_for_inference_both_ends_patchwise: every axis shorter than the
\* patch is padded on both ends up to the patch size; extra_dims holds the
\* leading and trailing pad of each axis.
LeadPad(extent, size) == Max2(size - extent, 0) \div 2
TrailPad(extent, size) == Max2(size - extent, 0) - LeadPad(extent, size)

padding_for_inference_both_ends_patchwise(shape, patch_size) ==
    [data |-> [shape |-> [a \in 1..3 |-> Max2(shape[a], patch_size[a])],
               lead |-> [a \in 1..3 |-> LeadPad(shape[a], patch_size[a])]],
     extra_dims |-> <<LeadPad(shape[1], patch_size[1]), TrailPad(shape[1], patch_size[1]),
                      LeadPad(shape[2], patch_size[2]), TrailPad(shape[2], patch_size[2]),
                      LeadPad(shape[3], patch_size[3]), TrailPad(shape[3], patch_size[3])>>]

\* ------------------------------------------------------------------ state
VARIABLES
    parameters,        \* the ConfigResources object handed to run_predictions
    volume,            \* the data argument of run_predictions
    model,             \* the loaded model
    pc,                \* where the call is
    mode,              \* the strategy run_predictions selected
    data,              \* the strategy's working copy of the volume
    final_result,      \* the strategy's accumulator
    idx,               \* the loop variables: <<chunk or slice, 0, 0>> or <<x, y, z>>
    loc,               \* upper_boundary, pad_value, scale, half_slab_size, extra_dims
    returned,          \* the array run_predictions returned
    error,             \* the message of the error run_predictions raised
    invocations,       \* model.run calls issued by the current call
    model_failed,      \* a model.run call of the current call raised
    skipped,           \* loop iterations of the current call ended by `continue`
    entry_parameters   \* parameters as they were when the current call began

vars == <<parameters, volume, model, pc, mode, data, final_result, idx, loc,
          returned, error, invocations, model_failed, skipped, entry_parameters>>

NoLocals ==
    [upper_boundary |-> 0, pad_value |-> 0, scale |-> 0, half_slab_size |-> 0,
     extra_dims |-> <<0, 0, 0, 0, 0, 0>>]

WholeError == "Segmentation inference (whole mode) could not fully proceed."
SlabError == "Segmentation inference (slab mode) could not fully proceed."
PatchError == "Segmentation inference (patch mode) could not fully proceed."

\* --------------------------------------------------------- initial states
Shapes == (1..MaxDim) \X (1..MaxDim) \X (1..MaxDim)

Flags == BOOLEAN \X BOOLEAN

WholeParams(shape) ==
    {[DefaultParams EXCEPT !.new_axial_size = ListSize(shape),
                           !.training_nb_classes = n,
                           !.training_deep_supervision = f[1],
                           !.swap_training_input = f[2]] :
        n \in ClassCounts, f \in Flags}

SlabParamsOn(shape, plane) ==
    {[DefaultParams EXCEPT !.new_axial_size = ListSize(d),
                           !.slicing_plane = plane,
                           !.training_slab_size = s,
                           !.training_nb_classes = n,
                           !.predictions_non_overlapping = f[1],
                           !.swap_training_input = f[2],
                           !.training_deep_supervision = g[1],
                           !.fix_orientation = g[2]] :
        s \in 1..MaxSlab, n \in ClassCounts, f \in Flags, g \in Flags,
        d \in {InPlane(shape, PlaneAxis(plane)), Swap2(InPlane(shape, PlaneAxis(plane)))}}

SlabParams(shape) == UNION {SlabParamsOn(shape, plane) : plane \in Planes}

PatchSizes == {<<p, p, q>> : p \in 1..MaxPatch, q \in 1..MaxPatch}

PatchOffsets(size) == {<<o, o, r>> : o \in 0..(size[1] - 1), r \in 0..(size[3] - 1)}

PatchParamsOf(size) ==
    {[DefaultParams EXCEPT !.training_patch_size = size,
                           !.training_patch_offset = off,
                           !.training_nb_classes = n,
                           !.training_deep_supervision = ds] :
        off \in PatchOffsets(size), n \in ClassCounts, ds \in BOOLEAN}

PatchParams == UNION {PatchParamsOf(size) : size \in PatchSizes}

\* new_axial_size of a length that is neither 2 nor 3.
OtherParams ==
    {[DefaultParams EXCEPT !.new_axial_size = nas,
                           !.slicing_plane = plane,
                           !.predictions_non_overlapping = f[1],
                           !.swap_training_input = f[2]] :
        nas \in {ListSize(<<>>), ListSize(<<1>>), ListSize(<<1, 1, 1, 1>>)},
        plane \in Planes, f \in Flags}

Patterns(shape) ==
    {EmptyVox, OneVox(Zero3, 5), OneVox(LastVoxel(shape), 5),
     OneVox(LastVoxel(shape), 1), AllVox(shape, 5)}

InitCall(p, shape, vox, seed) ==
    /\ parameters = p
    /\ volume = [shape |-> shape, vox |-> vox]
    /\ model = [seed |-> seed]
    /\ pc = "idle"
    /\ mode = "none"
    /\ data = NoData
    /\ final_result = NoArray
    /\ idx = Zero3
    /\ loc = NoLocals
    /\ returned = NoArray
    /\ error = ""
    /\ invocations = 0
    /\ model_failed = FALSE
    /\ skipped = 0
    /\ entry_parameters = p

InitWhole ==
    \E shape \in Shapes, seed \in ModelSeeds :
        \E p \in WholeParams(shape), vox \in {EmptyVox, AllVox(shape, 5)} :
            InitCall(p, shape, vox, seed)

InitSlab ==
    \E shape \in Shapes, seed \in {1} :
        \E p \in SlabParams(shape), vox \in Patterns(shape) :
            InitCall(p, shape, vox, seed)

\* Patch mode treats the three axes alike: volumes with two equal extents.
PatchShapes == {<<a, a, b>> : a \in 1..MaxDim, b \in 1..MaxDim}

InitPatch ==
    \E shape \in PatchShapes, seed \in {0} :
        \E p \in PatchParams, vox \in {AllVox(shape, 5)} :
            InitCall(p, shape, vox, seed)

InitOther ==
    \E shape \in {<<1, 1, 2>>}, seed \in ModelSeeds :
        \E p \in OtherParams, vox \in {EmptyVox, AllVox(shape, 5)} :
            InitCall(p, shape, vox, seed)

InitEdge ==
    \E shape \in EdgeShapes, seed \in ModelSeeds :
        \E n \in ClassCounts, ds \in BOOLEAN, vox \in {EmptyVox, OneVox(Zero3, 5)} :
            InitCall([DefaultParams EXCEPT !.training_patch_size = EdgePatchSize,
                                           !.training_patch_offset = EdgePatchOffset,
                                           !.training_nb_classes = n,
                                           !.training_deep_supervision = ds],
                     shape, vox, seed)

Init == InitWhole \/ InitSlab \/ InitPatch \/ InitOther


\* ------------------------------------------------------------ run_predictions
\* Leaving run_predictions: the strategy's locals are gone.
Leave(status, arr, msg) ==
    /\ pc' = status
    /\ returned' = arr
    /\ error' = msg
    /\ data' = NoData
    /\ final_result' = NoArray
    /\ idx' = Zero3
    /\ loc' = NoLocals

Return(arr) == Leave("returned", arr, "")

\* Raise handing back what was accumulated so far instead of raising.
RaiseReturningPartial(msg) == Leave("returned", final_result, "")

\* The except clause of a strategy: log, then raise ValueError(msg).
Raise(msg) == Leave("raised", NoArray, msg)

\* One more loop iteration done, the accumulator now fr.
Step(next, fr) ==
    /\ idx' = next
    /\ final_result' = fr
    /\ UNCHANGED <<pc, data, loc, returned, error>>

\* SelectStrategy testing "at least 3" where the source tests "exactly 3".
SelectStrategyAtLeast(nas) ==
    IF Truthy(nas) /\ Len(nas.dims) >= 3 THEN "whole"
    ELSE IF Truthy(nas) /\ Len(nas.dims) = 2 THEN "slab"
    ELSE "patch"

\* The if / elif / else on parameters.new_axial_size.
SelectStrategy(nas) ==
    IF Truthy(nas) /\ Len(nas.dims) = 3 THEN "whole"
    ELSE IF Truthy(nas) /\ Len(nas.dims) = 2 THEN "slab"
    ELSE "patch"

run_predictions ==
    /\ pc \in {"idle", "returned", "raised"}
    /\ mode' = SelectStrategy(parameters.new_axial_size)
    /\ pc' = SelectStrategy(parameters.new_axial_size)
    /\ returned' = NoArray
    /\ error' = ""
    /\ invocations' = 0
    /\ model_failed' = FALSE
    /\ skipped' = 0
    /\ entry_parameters' = parameters
    /\ UNCHANGED <<parameters, volume, model, data, final_result, idx, loc>>

\* model.run returns the list of the model's outputs; with deep supervision
\* the strategy takes its first entry, an array.
Unwrapped(deep_supervision) == IF deep_supervision THEN "array" ELSE "list"

\* slab_CT_pred.shape exists on an array, not on a list.
HasShape(kind) == kind = "array"

\* ---------------------------------------------------------- whole volume
\* predictions[0][0]: the first output's first batch element, of the input's
\* spatial shape and one channel per class of the model.
WholeOutput ==
    Assign(Zeros(volume.shape, parameters.training_nb_classes),
           Write("set", "whole", Zero3, volume.shape,
                 Signature(volume, Zero3, Zero3, volume.shape),
                 3, 0, <<>>, parameters.training_nb_classes, Zero3, invocations + 1))

run_predictions_whole ==
    /\ pc = "whole"
    /\ \E ok \in BOOLEAN :
         /\ invocations' = invocations + 1
         /\ model_failed' = (model_failed \/ ~ok)
         /\ IF ok THEN Return(WholeOutput) ELSE Raise(WholeError)
    /\ UNCHANGED <<parameters, volume, model, mode, skipped, entry_parameters>>

\* ------------------------------------------------------------------ slabs
UpperBoundary(shape, slicing_plane) == shape[PlaneAxis(slicing_plane)]

\* new_axial_size is the list parameters holds, not a copy of it: the swap
\* assigns into that list.
SwapTrainingInput(p) ==
    IF p.swap_training_input
    THEN [p EXCEPT !.new_axial_size = ListSize(Swap2(p.new_axial_size.dims))]
    ELSE p

\* Scale rounding down where the source rounds up.
ScaleFloor(upper_boundary, slab_size) == upper_boundary \div slab_size

\* scale = ceil(upper_boundary / slab_size)
Scale(upper_boundary, slab_size) == CeilDiv(upper_boundary, slab_size)

\* np.zeros(data.shape + (parameters.training_nb_classes,))
SlabPlaceholder(shape, nb) == Zeros(shape, nb)

run_predictions_slabbed ==
    /\ pc = "slab"
    /\ LET axis == PlaneAxis(parameters.slicing_plane)
           slab_size == parameters.training_slab_size
           upper_boundary == UpperBoundary(volume.shape, parameters.slicing_plane)
           tail == padding_for_inference(volume.shape, slab_size, axis)
           half_slab_size == slab_size \div 2
       IN /\ parameters' = SwapTrainingInput(parameters)
          /\ final_result' = SlabPlaceholder(volume.shape, parameters.training_nb_classes)
          /\ IF parameters.predictions_non_overlapping
             THEN /\ data' = tail.data
                  /\ loc' = [NoLocals EXCEPT !.upper_boundary = upper_boundary,
                                             !.pad_value = tail.pad_value,
                                             !.scale = Scale(upper_boundary, slab_size)]
                  /\ idx' = Zero3
                  /\ pc' = "slab_chunk"
             ELSE IF slab_size = 1
             THEN /\ data' = [shape |-> volume.shape, lead |-> Zero3]
                  /\ loc' = [NoLocals EXCEPT !.upper_boundary = upper_boundary]
                  /\ idx' = Zero3
                  /\ pc' = "slab_slice"
             ELSE /\ data' = padding_for_inference_both_ends(volume.shape, slab_size, axis)
                  /\ loc' = [NoLocals EXCEPT !.upper_boundary = upper_boundary,
                                             !.half_slab_size = half_slab_size]
                  /\ idx' = <<half_slab_size, 0, 0>>
                  /\ pc' = "slab_window"
    /\ UNCHANGED <<volume, model, mode, returned, error, invocations, model_failed,
                   skipped, entry_parameters>>

\* One iteration of `for chunk in range(scale)`.
slab_chunk ==
    /\ pc = "slab_chunk"
    /\ idx[1] < loc.scale
    /\ LET chunk == idx[1]
           axis == PlaneAxis(parameters.slicing_plane)
           slab_size == parameters.training_slab_size
           nb == parameters.training_nb_classes
           extent == final_result.shape[axis]
           unpad == chunk = loc.scale - 1 /\ loc.pad_value # 0
           lo == With(Zero3, axis, Clip(chunk * slab_size, data.shape[axis]))
           hi == With(data.shape, axis, Clip((chunk + 1) * slab_size, data.shape[axis]))
           depth == hi[axis] - lo[axis]
           dst_lo == chunk * slab_size
           dst_hi == IF unpad THEN extent ELSE (chunk + 1) * slab_size
           dst_len == SliceLen(dst_lo, dst_hi, extent)
           src_len == IF unpad THEN SliceLen(0, slab_size - loc.pad_value, depth)
                      ELSE SliceLen(0, slab_size, depth)
           w == Write("set", "chunk",
                      With(Zero3, axis, Clip(dst_lo, extent)),
                      With(final_result.shape, axis, Clip(dst_hi, extent)),
                      Signature(volume, data.lead, lo, hi),
                      axis, 0, <<>>, nb, lo, invocations + 1)
       IN \E ok \in BOOLEAN :
            /\ invocations' = invocations + 1
            /\ model_failed' = (model_failed \/ ~ok)
            /\ IF /\ ok
                  /\ HasShape(Unwrapped(parameters.training_deep_supervision))
                  /\ BroadcastOK(src_len, dst_len)
               THEN Step(<<chunk + 1, 0, 0>>, Assign(final_result, w))
               ELSE Raise(SlabError)
    /\ UNCHANGED <<parameters, volume, model, mode, skipped, entry_parameters>>

\* One iteration of `for slice in range(0, data.shape[2])` (slab_size == 1).
slab_slice ==
    /\ pc = "slab_slice"
    /\ idx[1] < data.shape[3]
    /\ LET slice == idx[1]
           n == parameters.new_axial_size.dims
           nb == parameters.training_nb_classes
           lo == <<0, 0, slice>>
           hi == <<data.shape[1], data.shape[2], slice + 1>>
           reshape_ok == data.shape[1] * data.shape[2] = n[1] * n[2]
           write_ok == /\ nb <= n[2]
                       /\ BroadcastOK(n[1], final_result.shape[1])
                       /\ BroadcastOK(nb, final_result.shape[2])
           w == Write("set", "slice", lo,
                      <<final_result.shape[1], final_result.shape[2], slice + 1>>,
                      Signature(volume, data.lead, lo, hi),
                      3, 0, n, nb, lo, invocations + 1)
       IN IF IsEmptyRegion(volume, data.lead, lo, hi)
          THEN /\ Step(<<slice + 1, 0, 0>>, final_result)
               /\ skipped' = skipped + 1
               /\ UNCHANGED <<invocations, model_failed>>
          ELSE IF ~reshape_ok
          THEN /\ Raise(SlabError)
               /\ UNCHANGED <<invocations, model_failed, skipped>>
          ELSE \E ok \in BOOLEAN :
                 /\ invocations' = invocations + 1
                 /\ model_failed' = (model_failed \/ ~ok)
                 /\ UNCHANGED skipped
                 /\ IF /\ ok
                       /\ HasShape(Unwrapped(parameters.training_deep_supervision))
                       /\ write_ok
                    THEN Step(<<slice + 1, 0, 0>>, Assign(final_result, w))
                    ELSE Raise(SlabError)
    /\ UNCHANGED <<parameters, volume, model, mode, entry_parameters>>

\* The slice of final_result a window's central output slice is written to.
WindowTarget(slicing_plane, slice, half_slab_size) ==
    IF slicing_plane = "axial" THEN slice - half_slab_size ELSE slice

\* One iteration of `for slice in range(half_slab_size, upper_boundary)`.
slab_window ==
    /\ pc = "slab_window"
    /\ idx[1] < loc.upper_boundary
    /\ LET slice == idx[1]
           axis == PlaneAxis(parameters.slicing_plane)
           slab_size == parameters.training_slab_size
           half == loc.half_slab_size
           n == parameters.new_axial_size.dims
           nb == parameters.training_nb_classes
           lo == With(Zero3, axis, Clip(slice - half, data.shape[axis]))
           hi == With(data.shape, axis, Clip(slice + half, data.shape[axis]))
           depth == hi[axis] - lo[axis]
           plane_shape == InPlane(data.shape, axis)
           reshape_ok == plane_shape[1] * plane_shape[2] * depth = n[1] * n[2] * slab_size
           target == WindowTarget(parameters.slicing_plane, slice, half)
           out_plane == InPlane(final_result.shape, axis)
           write_ok == /\ target < final_result.shape[axis]
                       /\ BroadcastOK(n[1], out_plane[1])
                       /\ BroadcastOK(n[2], out_plane[2])
           w == Write("set", "window",
                      With(Zero3, axis, target),
                      With(final_result.shape, axis, target + 1),
                      Signature(volume, data.lead, lo, hi),
                      axis, half, n, nb, lo, invocations + 1)
       IN IF ~reshape_ok
          THEN /\ Raise(SlabError)
               /\ UNCHANGED <<invocations, model_failed, skipped>>
          ELSE IF IsEmptyRegion(volume, data.lead, lo, hi)
          THEN /\ Step(<<slice + 1, 0, 0>>, final_result)
               /\ skipped' = skipped + 1
               /\ UNCHANGED <<invocations, model_failed>>
          ELSE \E ok \in BOOLEAN :
                 /\ invocations' = invocations + 1
                 /\ model_failed' = (model_failed \/ ~ok)
                 /\ UNCHANGED skipped
                 /\ IF /\ ok
                       /\ HasShape(Unwrapped(parameters.training_deep_supervision))
                       /\ write_ok
                    THEN Step(<<slice + 1, 0, 0>>, Assign(final_result, w))
                    ELSE Raise(SlabError)
    /\ UNCHANGED <<parameters, volume, model, mode, entry_parameters>>

\* The loop of the slab strategy is exhausted: return final_result.
slab_return ==
    /\ \/ pc = "slab_chunk" /\ idx[1] >= loc.scale
       \/ pc = "slab_slice" /\ idx[1] >= data.shape[3]
       \/ pc = "slab_window" /\ idx[1] >= loc.upper_boundary
    /\ Return(final_result)
    /\ UNCHANGED <<parameters, volume, model, mode, invocations, model_failed,
                   skipped, entry_parameters>>


\* ---------------------------------------------------------------- patches
\* PatchSteps rounding down where the source rounds up.
PatchStepsFloor(extent, size, offset) ==
    IF size - offset > 0 THEN extent \div (size - offset) ELSE 0

\* range(0, int(np.ceil(extent / (size - offset)))): the number of steps.
PatchSteps(extent, size, offset) ==
    IF size - offset > 0 THEN CeilDiv(extent, size - offset) ELSE 0

\* PatchBounds dropping a patch that reaches the extent instead of moving it.
PatchBoundsDropOverflow(i, extent, size, offset) ==
    [lo |-> i * (size - offset),
     hi |-> i * (size - offset) + size,
     skip |-> i * (size - offset) + size > extent]

\* The boundaries of step i along one axis: [i*stride, i*stride + size],
\* moved back by diff when the upper one reaches the extent; skip is the
\* `continue` taken when the moved lower boundary is negative.
PatchBounds(i, extent, size, offset) ==
    LET lo == i * (size - offset)
        hi == i * (size - offset) + size
        diff == Abs(extent - hi)
    IN IF hi >= extent
       THEN [lo |-> lo - diff, hi |-> hi - diff, skip |-> lo - diff < 0]
       ELSE [lo |-> lo, hi |-> hi, skip |-> FALSE]

\* PatchWriteOp overwriting what final_result holds.
PatchWriteOpOverwrite == "set"

\* How a patch's prediction is combined with what final_result holds there:
\* np.maximum(patch_pred[0], final_result[...]).
PatchWriteOp == "max"

\* np.zeros(data.shape + (parameters.training_nb_classes,)) on the padded data.
PatchPlaceholder(shape, nb) == Zeros(shape, nb)

\* StripPadding dropping the leading pad only.
StripPaddingLeadingOnly(arr, e) ==
    SliceArray(arr, <<e[1], e[3], e[5]>>, arr.shape)

\* final_result[extra_dims[0]:shape[0] - extra_dims[1], ...]
StripPadding(arr, e) ==
    SliceArray(arr, <<e[1], e[3], e[5]>>,
               <<arr.shape[1] - e[2], arr.shape[2] - e[4], arr.shape[3] - e[6]>>)

\* The loop variables after (x, y, z) in the three nested loops.
NextPatchIndex(i, steps) ==
    IF i[3] + 1 < steps[3] THEN <<i[1], i[2], i[3] + 1>>
    ELSE IF i[2] + 1 < steps[2] THEN <<i[1], i[2] + 1, 0>>
    ELSE <<i[1] + 1, 0, 0>>

StepsOf(shape, p) ==
    [a \in 1..3 |-> PatchSteps(shape[a], p.training_patch_size[a], p.training_patch_offset[a])]

run_predictions_patch ==
    /\ pc = "patch"
    /\ LET padded == padding_for_inference_both_ends_patchwise(volume.shape,
                                                               parameters.training_patch_size)
           steps == StepsOf(padded.data.shape, parameters)
       IN IF \E a \in 1..3 : parameters.training_patch_size[a] = parameters.training_patch_offset[a]
          THEN \* division by zero in the range of a loop
               Raise(PatchError)
          ELSE /\ data' = padded.data
               /\ loc' = [NoLocals EXCEPT !.extra_dims = padded.extra_dims]
               /\ final_result' = PatchPlaceholder(padded.data.shape,
                                                   parameters.training_nb_classes)
               /\ idx' = IF \E a \in 1..3 : steps[a] = 0 THEN <<steps[1], 0, 0>> ELSE Zero3
               /\ pc' = "patch_loop"
               /\ UNCHANGED <<returned, error>>
    /\ UNCHANGED <<parameters, volume, model, mode, invocations, model_failed,
                   skipped, entry_parameters>>

\* One iteration of the innermost loop, at (x, y, z) = idx.
patch_iter ==
    /\ pc = "patch_loop"
    /\ idx[1] < StepsOf(data.shape, parameters)[1]
    /\ LET steps == StepsOf(data.shape, parameters)
           b == [a \in 1..3 |-> PatchBounds(idx[a], data.shape[a],
                                           parameters.training_patch_size[a],
                                           parameters.training_patch_offset[a])]
           lo == <<b[1].lo, b[2].lo, b[3].lo>>
           hi == <<b[1].hi, b[2].hi, b[3].hi>>
           w == Write(PatchWriteOp, "patch", lo, hi,
                      Signature(volume, data.lead, lo, hi),
                      3, 0, <<>>, parameters.training_nb_classes, lo, invocations + 1)
       IN IF \E a \in 1..3 : b[a].skip
          THEN /\ Step(NextPatchIndex(idx, steps), final_result)
               /\ skipped' = skipped + 1
               /\ UNCHANGED <<invocations, model_failed>>
          ELSE \E ok \in BOOLEAN :
                 /\ invocations' = invocations + 1
                 /\ model_failed' = (model_failed \/ ~ok)
                 /\ UNCHANGED skipped
                 /\ IF ok
                    THEN Step(NextPatchIndex(idx, steps), Assign(final_result, w))
                    ELSE Raise(PatchError)
    /\ UNCHANGED <<parameters, volume, model, mode, entry_parameters>>

\* The loops are exhausted: strip the padding and return.
patch_return ==
    /\ pc = "patch_loop"
    /\ idx[1] >= StepsOf(data.shape, parameters)[1]
    /\ Return(StripPadding(final_result, loc.extra_dims))
    /\ UNCHANGED <<parameters, volume, model, mode, invocations, model_failed,
                   skipped, entry_parameters>>

\* --------------------------------------------------------- specifications
NextWhole == run_predictions \/ run_predictions_whole

NextSlab ==
    \/ run_predictions
    \/ run_predictions_slabbed
    \/ slab_chunk
    \/ slab_slice
    \/ slab_window
    \/ slab_return

NextPatch ==
    \/ run_predictions
    \/ run_predictions_patch
    \/ patch_iter
    \/ patch_return

Next ==
    \/ run_predictions
    \/ run_predictions_whole
    \/ run_predictions_slabbed
    \/ slab_chunk
    \/ slab_slice
    \/ slab_window
    \/ slab_return
    \/ run_predictions_patch
    \/ patch_iter
    \/ patch_return

\* Every configuration, every strategy.
Spec == Init /\ [][Next]_vars

\* The slab strategy alone.
SpecSlab == InitSlab /\ [][NextSlab]_vars

\* The patch strategy alone.
SpecPatch == InitPatch /\ [][NextPatch]_vars

\* The patch strategy on the volumes of the edge-case scenario.
SpecEdge == InitEdge /\ [][NextPatch]_vars


\* ------------------------------------------------------------- properties
EntrySize == entry_parameters.new_axial_size

\* len(parameters.new_axial_size) when the call began, 0 for None.
EntryLength == IF EntrySize.none THEN 0 ELSE Len(EntrySize.dims)

WholeStates == {"whole"}
SlabStates == {"slab", "slab_chunk", "slab_slice", "slab_window"}
PatchStates == {"patch", "patch_loop"}
Finished == {"returned", "raised"}

\* C1: the strategy that runs is decided by the length of new_axial_size
\* alone: 3 runs the whole-volume strategy, 2 the slab strategy, anything
\* else (None, empty, another length) the patch strategy, whatever the other
\* fields of the configuration hold; and only that strategy's steps run.
C1_StrategyByLength ==
    mode # "none" =>
        /\ EntryLength = 3 => mode = "whole" /\ pc \in WholeStates \cup Finished
        /\ EntryLength = 2 => mode = "slab" /\ pc \in SlabStates \cup Finished
        /\ EntryLength \notin {2, 3} => mode = "patch" /\ pc \in PatchStates \cup Finished

\* A list of four entries was given and the patch strategy ran to its end.
C1_Witness ==
    /\ EntryLength = 4
    /\ mode = "patch"
    /\ pc = "returned"
    /\ invocations > 0

\* C2: whatever the strategy, the array run_predictions returns has the
\* spatial shape of the volume it was given and training_nb_classes classes.
C2_ShapeInvariance ==
    pc = "returned" =>
        /\ returned.shape = volume.shape
        /\ returned.nb = parameters.training_nb_classes

\* The patch strategy returned for a volume it had to pad on both ends.
C2_Witness ==
    /\ pc = "returned"
    /\ mode = "patch"
    /\ returned.lead[1] > 0
    /\ volume.shape[1] + 2 <= parameters.training_patch_size[1]
    /\ returned.shape = volume.shape

ErrorOf(m) ==
    IF m = "whole" THEN WholeError ELSE IF m = "slab" THEN SlabError ELSE PatchError

\* C3: once a model invocation has raised, the call has ended by raising the
\* error of the active strategy, no array is returned, and no step of the
\* strategy (hence no further invocation) follows.
C3_FailureAborts ==
    model_failed =>
        /\ pc = "raised"
        /\ error = ErrorOf(mode)
        /\ returned = NoArray
        /\ final_result = NoArray

\* The third invocation of a slab run raised.
C3_Witness ==
    /\ model_failed
    /\ pc = "raised"
    /\ mode = "slab"
    /\ invocations = 3
    /\ error = SlabError


\* The assignments of arr that cover its element v.
Covering(arr, v) ==
    {i \in 1..Len(arr.writes) :
        InBox(Add3(v, arr.lead), arr.writes[i].lo, arr.writes[i].hi)}

\* What assignment i of arr predicted for element (v, c).
PredictedAt(arr, i, v, c) == ValueOf(model.seed, arr.writes[i], Add3(v, arr.lead), c)

SetMax(S) == CHOOSE x \in S : \A y \in S : y <= x

Reversed(q) == [i \in 1..Len(q) |-> q[Len(q) + 1 - i]]

Rotated(q) == IF q = <<>> THEN q ELSE Append(Tail(q), Head(q))

Classes(arr) == 0..(arr.nb - 1)

\* C4 as stated: for any two patches covering a voxel, the final value there
\* is the larger of the two patches' predictions (read in the claim's favour:
\* for predictions that are not negative).
C4_PairwiseMax ==
    (pc = "returned" /\ mode = "patch") =>
        \A v \in Voxels(returned.shape), c \in Classes(returned) :
            \A i \in Covering(returned, v), j \in Covering(returned, v) :
                (/\ i # j
                 /\ PredictedAt(returned, i, v, c) >= 0
                 /\ PredictedAt(returned, j, v, c) >= 0)
                => ValueAt(model.seed, returned, v, c)
                     = Max2(PredictedAt(returned, i, v, c), PredictedAt(returned, j, v, c))

\* C4, amended: the final value at a voxel is the largest of 0 (the value the
\* accumulator starts with) and the predictions of all the patches that cover
\* the voxel, and processing the patches in another order (reversed, rotated)
\* gives the same value; so when exactly two patches cover the voxel and
\* neither prediction is negative, it is the larger of the two.
C4_PatchOverlapMax ==
    (pc = "returned" /\ mode = "patch") =>
        \A v \in Voxels(returned.shape), c \in Classes(returned) :
            LET cov == Covering(returned, v)
                final == ValueAt(model.seed, returned, v, c)
                n == Len(returned.writes)
                at == Add3(v, returned.lead)
            IN /\ final = SetMax({0} \cup {PredictedAt(returned, i, v, c) : i \in cov})
               /\ final = Accumulate(model.seed, Reversed(returned.writes), n, at, c)
               /\ final = Accumulate(model.seed, Rotated(returned.writes), n, at, c)
               /\ \A i \in cov, j \in cov :
                    (/\ cov = {i, j}
                     /\ i # j
                     /\ PredictedAt(returned, i, v, c) >= 0
                     /\ PredictedAt(returned, j, v, c) >= 0)
                    => final = Max2(PredictedAt(returned, i, v, c),
                                    PredictedAt(returned, j, v, c))

\* A voxel covered by exactly two patches whose predictions differ, the
\* earlier one the larger: the final value is the earlier patch's.
C4_Witness ==
    /\ pc = "returned"
    /\ mode = "patch"
    /\ \E v \in Voxels(returned.shape), c \in Classes(returned) :
         \E i \in Covering(returned, v), j \in Covering(returned, v) :
            /\ Covering(returned, v) = {i, j}
            /\ i < j
            /\ PredictedAt(returned, i, v, c) > PredictedAt(returned, j, v, c)
            /\ PredictedAt(returned, j, v, c) >= 0
            /\ ValueAt(model.seed, returned, v, c) = PredictedAt(returned, i, v, c)


\* C5 as stated: when run_predictions has returned or raised, every field of
\* the configuration holds what it held when the call began.
C5_ConfigReadOnly ==
    pc \in Finished => parameters = entry_parameters

\* The positions [lo, hi] the patches of arr take along axis a.
PositionsOn(arr, a) == {<<arr.writes[i].lo[a], arr.writes[i].hi[a]>> : i \in 1..Len(arr.writes)}

EdgeCase ==
    /\ pc = "returned"
    /\ mode = "patch"
    /\ volume.shape = <<64, 64, 40>>
    /\ parameters.training_patch_size = EdgePatchSize
    /\ parameters.training_patch_offset = EdgePatchOffset

\* C6 as stated: on the volume (64,64,40) with patches of 32 and offset 8
\* there are 3 patch positions on each of the three axes, the last of them
\* flush with the far boundary, and none is skipped.
C6_ThreePerAxis ==
    EdgeCase =>
        /\ skipped = 0
        /\ \A a \in 1..3 :
             /\ Cardinality(PositionsOn(returned, a)) = 3
             /\ <<volume.shape[a] - 32, volume.shape[a]>> \in PositionsOn(returned, a)

\* C6, amended: there are 3 patch positions on axes 0 and 1 ([0,32], [24,56]
\* and [32,64]) and 2 on axis 2 ([0,32] and [8,40]: ceil(40/24) = 2 steps);
\* the last position on each axis is flush with the far boundary, no position
\* is skipped, and the model is invoked on all 3 * 3 * 2 patches.
C6_EdgePositions ==
    EdgeCase =>
        /\ skipped = 0
        /\ invocations = 18
        /\ Len(returned.writes) = 18
        /\ PositionsOn(returned, 1) = {<<0, 32>>, <<24, 56>>, <<32, 64>>}
        /\ PositionsOn(returned, 2) = {<<0, 32>>, <<24, 56>>, <<32, 64>>}
        /\ PositionsOn(returned, 3) = {<<0, 32>>, <<8, 40>>}

\* The edge-case run returned after its last patch, flush with the far corner.
C6_Witness ==
    /\ EdgeCase
    /\ Len(returned.writes) > 0
    /\ returned.writes[Len(returned.writes)].hi = <<64, 64, 40>>
    /\ returned.writes[Len(returned.writes)].lo = <<32, 32, 8>>


SlidingWindow(p) == ~p.predictions_non_overlapping /\ p.training_slab_size > 1

SingleSlice(p) == ~p.predictions_non_overlapping /\ p.training_slab_size = 1

\* C7 as stated: in sliding-window mode with slab_size > 1, on every slicing
\* plane, what is written at original slice i is output slice slab_size/2 of
\* the window centred on i.  The working copy carries slab_size/2 padded
\* slices in front, so the window centred on original slice i starts at
\* element i of the working copy.
C7_CentredWindow ==
    (pc = "returned" /\ mode = "slab" /\ SlidingWindow(parameters)) =>
        \A n \in 1..Len(returned.writes) :
            LET w == returned.writes[n]
            IN /\ w.k = parameters.training_slab_size \div 2
               /\ w.src[w.axis] = w.lo[w.axis]

\* The elements of slice i of a volume of this shape along an axis.
SliceLo(axis, i) == With(Zero3, axis, i)
SliceHi(shape, axis, i) == With(shape, axis, i + 1)

EmptySlices(vol, axis) ==
    {i \in 0..(vol.shape[axis] - 1) :
        IsEmptyRegion(vol, Zero3, SliceLo(axis, i), SliceHi(vol.shape, axis, i))}

\* C8 as stated: in sliding-window mode with slab_size == 1, on every slicing
\* plane, a slice along the slicing axis with no voxel above 0.1 causes no
\* model invocation (there are at most as many invocations as slices that
\* are not empty) and its slice of the returned volume is zero for every class.
C8_EmptySliceSkipped ==
    (pc = "returned" /\ mode = "slab" /\ SingleSlice(parameters)) =>
        LET axis == PlaneAxis(parameters.slicing_plane)
            empty == EmptySlices(volume, axis)
        IN /\ invocations <= volume.shape[axis] - Cardinality(empty)
           /\ \A i \in empty :
                \A v \in Voxels(returned.shape), c \in Classes(returned) :
                    v[axis] = i => ValueAt(model.seed, returned, v, c) = 0

\* A configuration the strategies are meant for: the tile shape, once
\* swapped if swap_training_input asks for it, is the shape of a slice on the
\* slicing plane; the slab size is at least 1; the patch offset is smaller
\* than the patch size; the model has deep supervision outputs.
Supported(p, vol) ==
    /\ p.training_slab_size >= 1
    /\ \A a \in 1..3 : /\ 0 <= p.training_patch_offset[a]
                       /\ p.training_patch_offset[a] < p.training_patch_size[a]
    /\ p.training_deep_supervision
    /\ (~p.new_axial_size.none /\ Len(p.new_axial_size.dims) = 2) =>
          SwapTrainingInput(p).new_axial_size.dims
             = InPlane(vol.shape, PlaneAxis(p.slicing_plane))

\* C9 as stated: on a supported configuration (any strategy, any slicing
\* plane, either overlap policy, any slab size including the odd ones, any
\* patch offset below the patch size) a call in which no model invocation
\* raised does not raise.  The single-slice sub-mode (slab_size == 1 without
\* non-overlapping tiling) is left aside here: what is shown is the sliding
\* window.
C9_ReturnsUnlessModelFails ==
    (/\ pc = "raised"
     /\ Supported(entry_parameters, volume)
     /\ ~(mode = "slab" /\ SingleSlice(entry_parameters)))
    => model_failed

\* C10: in patch mode with every padded extent at least the patch size and
\* 0 <= offset < size on every axis, when the loops are exhausted every voxel
\* of the padded volume lies in a patch the model was invoked on, no position
\* was skipped, and so every voxel of the returned volume is covered.
C10_PatchCoverage ==
    /\ (/\ pc = "patch_loop"
        /\ idx[1] >= StepsOf(data.shape, parameters)[1]
        /\ \A a \in 1..3 : /\ data.shape[a] >= parameters.training_patch_size[a]
                           /\ 0 <= parameters.training_patch_offset[a]
                           /\ parameters.training_patch_offset[a]
                                < parameters.training_patch_size[a])
       => /\ skipped = 0
          /\ invocations = Len(final_result.writes)
          /\ \A v \in Voxels(data.shape) : Covering(final_result, v) # {}
    /\ (pc = "returned" /\ mode = "patch")
       => /\ skipped = 0
          /\ \A v \in Voxels(returned.shape) : Covering(returned, v) # {}

\* The loops ended on a volume longer than the patch, whose last patch along
\* axis 0 was moved back to lie flush with the far edge.
C10_Witness ==
    /\ pc = "patch_loop"
    /\ idx[1] >= StepsOf(data.shape, parameters)[1]
    /\ data.shape[1] > parameters.training_patch_size[1]
    /\ \E n \in 1..Len(final_result.writes) :
         LET w == final_result.writes[n]
         IN /\ w.hi[1] = data.shape[1]
            /\ w.lo[1] % (parameters.training_patch_size[1]
                          - parameters.training_patch_offset[1]) # 0
    /\ \A v \in Voxels(data.shape) : Covering(final_result, v) # {}

\* The assignments of arr made to slice i of the slicing axis.
WritesAt(arr, axis, i) == {n \in 1..Len(arr.writes) : arr.writes[n].lo[axis] = i}

\* The window centred on original slice i holds no voxel above 0.1: with
\* slab_size/2 padded slices in front it is elements i .. i + 2*(slab_size/2) - 1
\* of the working copy.
WindowEmpty(vol, slab_size, axis, i) ==
    LET padded == padding_for_inference_both_ends(vol.shape, slab_size, axis)
    IN IsEmptyRegion(vol, padded.lead, With(Zero3, axis, i),
                     With(padded.shape, axis, i + 2 * (slab_size \div 2)))

\* C11 as stated: in sliding-window mode with slab_size > 1, on every slicing
\* plane, a call that returns has considered as many windows as there are
\* original slices (upper_boundary), and every original slice, the first and
\* the last ones included, received exactly one write unless the window
\* centred on it was empty, and then none.
C11_EverySliceWindowed ==
    (pc = "returned" /\ mode = "slab" /\ SlidingWindow(parameters)) =>
        LET axis == PlaneAxis(parameters.slicing_plane)
            upper_boundary == UpperBoundary(volume.shape, parameters.slicing_plane)
        IN /\ invocations + skipped = upper_boundary
           /\ \A i \in 0..(upper_boundary - 1) :
                Cardinality(WritesAt(returned, axis, i))
                  = IF WindowEmpty(volume, parameters.training_slab_size, axis, i)
                    THEN 0 ELSE 1

NonOverlapping(p) == p.predictions_non_overlapping

\* C12: in non-overlapping slab mode, on every slicing plane, a call that
\* returns has invoked the model ceil(upper_boundary / slab_size) times, one
\* chunk after the other; chunk k was cut at element k*slab_size of the
\* working copy and wrote, from output slice 0 on, exactly the original
\* slices k*slab_size .. min((k+1)*slab_size, upper_boundary) - 1, so every
\* original slice was written exactly once; when the tail was padded, the
\* last chunk wrote slab_size - pad_value slices.
C12_ChunksTileTheAxis ==
    (pc = "returned" /\ mode = "slab" /\ NonOverlapping(parameters)) =>
        LET axis == PlaneAxis(parameters.slicing_plane)
            slab_size == parameters.training_slab_size
            upper_boundary == UpperBoundary(volume.shape, parameters.slicing_plane)
            chunks == (upper_boundary + slab_size - 1) \div slab_size
            pad_value == chunks * slab_size - upper_boundary
        IN /\ invocations = chunks
           /\ Len(returned.writes) = chunks
           /\ \A k \in 0..(chunks - 1) :
                LET w == returned.writes[k + 1]
                IN /\ w.inv = k + 1
                   /\ w.src[axis] = k * slab_size
                   /\ w.k = 0
                   /\ w.lo[axis] = k * slab_size
                   /\ w.hi[axis] = Min2((k + 1) * slab_size, upper_boundary)
                   /\ \A a \in 1..3 : a # axis =>
                        w.lo[a] = 0 /\ w.hi[a] = volume.shape[a]
           /\ \A v \in Voxels(returned.shape) : Cardinality(Covering(returned, v)) = 1
           /\ pad_value # 0 =>
                LET last == returned.writes[chunks]
                IN last.hi[axis] - last.lo[axis] = slab_size - pad_value

\* A returned non-overlapping call on an axis that is not a multiple of the
\* slab size, cut in more than one chunk: the last chunk wrote fewer slices
\* than a slab holds.
C12_Witness ==
    /\ pc = "returned"
    /\ mode = "slab"
    /\ NonOverlapping(parameters)
    /\ UpperBoundary(volume.shape, parameters.slicing_plane)
         % parameters.training_slab_size # 0
    /\ Len(returned.writes) >= 2
    /\ LET axis == PlaneAxis(parameters.slicing_plane)
           last == returned.writes[Len(returned.writes)]
       IN /\ last.hi[axis] = volume.shape[axis]
          /\ last.hi[axis] - last.lo[axis] < parameters.training_slab_size

====
